---- MODULE Spec2Model ----
(***************************************************************************)
(* Gesture state machine, phrase selector, classifier polling path and     *)
(* blend driver of the Saturn particle scene (App.tsx, CameraHandler,      *)
(* visionService.ts, SaturnScene.tsx).                                     *)
(*                                                                         *)
(* React semantics the model relies on:                                    *)
(*  - a function defined in a component body reads the state values of the *)
(*    render that created it (its closure);                                *)
(*  - useCallback(f, [isExpanded]) keeps the function of the last render   *)
(*    in which isExpanded changed;                                         *)
(*  - an effect with deps [active, hasPermission] runs only in a render    *)
(*    where one of the two changed, so the interval callback it installs   *)
(*    keeps the onGestureDetected prop of that render;                     *)
(*  - a state setter writes the committed state, whatever the closure;     *)
(*  - handlers run to completion (single JavaScript thread).               *)
(***************************************************************************)
EXTENDS Integers, Sequences, FiniteSets, Bags, TLC

\* ---------------------------------------------------------------- bounds
NumPhrases == 2
MaxInFlight == 2
MaxFrames == 1
BlendDenom == 2500
MaxParticles == 180
SmallParticles == 3
ShaderDenom == 100

\* ------------------------------------------------------- program constants
\* uExpansion.value += (target - uExpansion.value) * 0.04, i.e. 1/25
LerpDivisor == 25

\* uExpansion is kept in fixed point, in units of 1/BlendDenom (bound above);
\* the shader thresholds 0.01 and 0.99 are Epsilon and BlendDenom - Epsilon.
Epsilon == BlendDenom \div 100

\* Math.random() is modelled as rnd / RandomDenom with rnd in RandomDraws.
RandomDenom == NumPhrases
RandomDraws == 0 .. (RandomDenom - 1)

\* Math.random() is called only inside triggerNewPhrase.
DrawsIf(selects) == IF selects THEN RandomDraws ELSE {0}

\* ----------------------------------------------------------------- types
OPEN == "OPEN"
CLOSED == "CLOSED"
NONE == "NONE"

\* PHRASES[i], i in 0..PHRASES.length-1 (constants.ts)
PHRASES == [i \in 0 .. (NumPhrases - 1) |-> "phrase" \o ToString(i)]

\* An index array whose entries are all 0.
AllIndicesZero == [i \in 1 .. NumPhrases |-> 0]

\* Array.from({ length: PHRASES.length }, (_, i) => i)
AllIndices == [i \in 1 .. NumPhrases |-> i - 1]

\* What the remote call can produce: a thrown network error, a response
\* without text, a text that is not JSON (no parsed object in these three), or
\* a JSON object whose gesture field is one of the enum values, absent
\* (undefined) or some other string.
Confidences == {0, 1}
JsonGestures == {OPEN, CLOSED, NONE, "undefined", "FIST"}
RawOutcomes ==
    {[kind |-> k, gesture |-> "undefined", confidence |-> 0] :
        k \in {"netError", "emptyText", "badJson"}}
    \cup {[kind |-> "json", gesture |-> g, confidence |-> c] :
            g \in JsonGestures, c \in Confidences}

\* intervalRef.current is null (set) and no interval of the component is
\* running in the browser (live).
NoInterval == [set |-> FALSE, live |-> 0]

VARIABLES
    gestureState,       \* App state
    isExpanded,         \* App state
    currentPhrase,      \* App state
    availableIndices,   \* App state
    onGestureDetected,  \* render values read by the memoized handleGestureDetected
    hasPermission,      \* CameraHandler state
    loading,            \* CameraHandler state: a getUserMedia request is pending
    intervalRef,        \* NoInterval, or the running interval and its closure
    inFlight,           \* bag of detectGesture promises not yet settled
    uExpansion,         \* uniforms.uExpansion.value * BlendDenom
    uTime,              \* frames rendered so far (followed up to MaxFrames)
    rotationY,          \* pointsRef.current.rotation.y / 0.001
    config,             \* PARTICLE_COUNT and the shape parameters
    particles,          \* what the particle useMemo of SaturnScene produced
    vertex,             \* one coordinate of one vertex through the vertex shader
    \* --- history variables (not program state)
    last,               \* the classifier result just handled, if any
    toggledSinceTick,   \* a manual toggle followed the latest dispatch
    \* --- history of the scripted run (SpecScript)
    scriptPos,          \* results of Script delivered so far
    firstCycle,         \* phrase indices of the first NumPhrases selections
    phraseCalls,        \* invocations of triggerNewPhrase
    expandEntries,      \* isExpanded false -> true
    collapseEntries     \* isExpanded true -> false

appVars == <<gestureState, isExpanded, currentPhrase, availableIndices>>
vars == <<gestureState, isExpanded, currentPhrase, availableIndices,
          onGestureDetected, hasPermission, loading, intervalRef, inFlight,
          uExpansion, uTime, rotationY, config, particles, vertex, last, toggledSinceTick, scriptPos, firstCycle, phraseCalls,
          expandEntries, collapseEntries>>
sceneVars == <<config, particles, vertex>>
scriptVars == <<scriptPos, firstCycle, phraseCalls, expandEntries, collapseEntries>>

\* The committed App state as one value.
AppState ==
    [gestureState |-> gestureState, isExpanded |-> isExpanded,
     currentPhrase |-> currentPhrase, availableIndices |-> availableIndices]

\* The cameraActive state of App: no code path calls setCameraActive.
active == TRUE

\* ------------------------------------------------------------ App.tsx
\* A splice that always removes the first element.
SpliceFirst(seq, k) == [i \in 1 .. (Len(seq) - 1) |-> seq[i + 1]]

\* newIndices.splice(randomIndex, 1), k the 1-based position
Splice(seq, k) ==
    [i \in 1 .. (Len(seq) - 1) |-> IF i < k THEN seq[i] ELSE seq[i + 1]]

\* if (indices.length === 0): the selector starts a new cycle
Refills(render) == Len(render.availableIndices) = 0

\* A reset that refills the set with index 0 only.
PoolOfFirst(render) ==
    IF Len(render.availableIndices) = 0 THEN <<0>>
    ELSE render.availableIndices

\* let indices = availableIndices; if (indices.length === 0) indices = all
PoolOf(render) ==
    IF Len(render.availableIndices) = 0 THEN AllIndices
    ELSE render.availableIndices

\* Math.floor(Math.random() * indices.length)
RandomIndex(render, rnd) == (rnd * Len(PoolOf(render))) \div RandomDenom

\* indices[randomIndex]
PhraseIndex(render, rnd) == PoolOf(render)[RandomIndex(render, rnd) + 1]

\* triggerNewPhrase as defined in the render `render`, applied to the
\* committed state s.
triggerNewPhrase(s, render, rnd) ==
    [s EXCEPT
        !.availableIndices = Splice(PoolOf(render), RandomIndex(render, rnd) + 1),
        !.currentPhrase = PHRASES[PhraseIndex(render, rnd)]]

\* Whether handleGestureDetected of render `render` calls triggerNewPhrase.
GestureSelects(render, detectedState) ==
    detectedState = OPEN /\ ~render.isExpanded

\* handleGestureDetected as memoized in the render `render`.
handleGestureDetected(s, render, detectedState, rnd) ==
    LET s1 == IF detectedState = OPEN /\ ~render.isExpanded
              THEN triggerNewPhrase([s EXCEPT !.isExpanded = TRUE], render, rnd)
              ELSE IF detectedState = CLOSED /\ render.isExpanded
                   THEN [s EXCEPT !.isExpanded = FALSE]
                   ELSE s
    IN [s1 EXCEPT !.gestureState = detectedState]

\* A toggle that expands without selecting a phrase.
handleManualToggleSilent(s, rnd) ==
    IF s.isExpanded
    THEN [s EXCEPT !.isExpanded = FALSE, !.gestureState = CLOSED]
    ELSE [s EXCEPT !.isExpanded = TRUE, !.gestureState = OPEN]

\* handleManualToggle is re-created by every render: it reads the committed
\* state.
handleManualToggle(s, rnd) ==
    IF s.isExpanded
    THEN [s EXCEPT !.isExpanded = FALSE, !.gestureState = CLOSED]
    ELSE triggerNewPhrase(
            [s EXCEPT !.isExpanded = TRUE, !.gestureState = OPEN], s, rnd)

\* What handleGestureDetected reads of the render that created it: isExpanded,
\* and through triggerNewPhrase availableIndices. The branch that calls
\* triggerNewPhrase needs isExpanded = false, so a handler created with
\* isExpanded = true never reads the pool and none is kept for it.
Closure(s) ==
    [isExpanded |-> s.isExpanded,
     availableIndices |-> IF s.isExpanded THEN <<>> ELSE s.availableIndices]

\* useCallback(..., [isExpanded]): the memoized handler is replaced in the
\* render that follows a change of isExpanded and kept otherwise.
Memoize(old, new, kept) ==
    IF new.isExpanded # old.isExpanded THEN Closure(new) ELSE kept

\* ------------------------------------------------- visionService.ts
\* detectGesture with a catch block that reports a closed hand instead of NONE.
detectGestureCatchClosed(raw) ==
    IF raw.kind \in {"netError", "badJson"}
    THEN [gesture |-> CLOSED, confidence |-> 0, resolved |-> TRUE]
    ELSE IF raw.kind = "emptyText"
    THEN [gesture |-> NONE, confidence |-> 0, resolved |-> TRUE]
    ELSE [gesture |-> raw.gesture, confidence |-> raw.confidence,
          resolved |-> TRUE]

\* detectGesture: what the promise resolves to.
\* `resolved` is FALSE for a promise that rejects.
detectGesture(raw) ==
    IF raw.kind = "netError"
    THEN [gesture |-> NONE, confidence |-> 0, resolved |-> TRUE]
    ELSE IF raw.kind = "emptyText"
    THEN [gesture |-> NONE, confidence |-> 0, resolved |-> TRUE]
    ELSE IF raw.kind = "badJson"
    THEN [gesture |-> NONE, confidence |-> 0, resolved |-> TRUE]
    ELSE [gesture |-> raw.gesture, confidence |-> raw.confidence,
          resolved |-> TRUE]

\* --------------------------------------------------- CameraHandler
\* A .then handler that thresholds on the confidence.
ThenCallsConfident(response) ==
    response.resolved /\ response.gesture # NONE /\ response.confidence > 0

\* .then runs for a resolved promise only; if (response.gesture !== 'NONE')
ThenCalls(response) == response.resolved /\ response.gesture # NONE

\* The gesture of the response passed on as it is.
MapGestureRaw(response) == response.gesture

\* response.gesture === 'OPEN' ? GestureState.OPEN : GestureState.CLOSED
MapGesture(response) == IF response.gesture = OPEN THEN OPEN ELSE CLOSED

\* The .then handler of the interval callback whose closure is `render`.
ThenHandler(s, render, response, rnd) ==
    IF ThenCalls(response)
    THEN handleGestureDetected(s, render, MapGesture(response), rnd)
    ELSE s

\* startAnalysisLoop: an interval held by the ref is cleared, and the new
\* interval keeps the onGestureDetected prop of the render whose effect
\* started it. `live` counts the intervals of the component that run in the
\* browser.
startAnalysisLoop(ref, prop) ==
    [set |-> TRUE, onGestureDetected |-> prop,
     live |-> (IF ref.set THEN ref.live - 1 ELSE ref.live) + 1]

\* A stop that forgets the interval without clearing it.
stopAnalysisLoopKeeps(ref) == [ref EXCEPT !.set = FALSE]

\* stopAnalysisLoop: if (intervalRef.current) { clearInterval; current = null }
stopAnalysisLoop(ref) ==
    IF ref.set THEN [set |-> FALSE, live |-> ref.live - 1] ELSE ref

\* The effect with deps [active, hasPermission], run after a render in which
\* hasPermission became `perm`: the cleanup of the earlier run, then the body.
AnalysisEffect(ref, perm, prop) ==
    LET cleaned == stopAnalysisLoop(ref)
    IN IF active /\ perm THEN startAnalysisLoop(cleaned, prop)
       ELSE stopAnalysisLoop(cleaned)

\* ------------------------------------------------------ SaturnScene
\* const target = isExpanded ? 1.0 : 0.0
Target(expanded) == IF expanded THEN BlendDenom ELSE 0


\* The lerp with a speed above 1 (it steps past the target).
LerpOvershoot(value, expanded) == value + (Target(expanded) - value) * 2

\* The lerp with speed 0 (the value never moves).
LerpStuck(value, expanded) == value + (Target(expanded) - value) * 0

\* The lerp with twice the speed (0.08 of the gap per frame).
LerpFast(value, expanded) ==
    value + ((Target(expanded) - value) \div LerpDivisor) * 2

\* uniforms.uExpansion.value += (target - uniforms.uExpansion.value) * 0.04
Lerp(value, expanded) == value + (Target(expanded) - value) \div LerpDivisor

\* ------------------------------------- SaturnScene: particle generation
\* Math.floor(PARTICLE_COUNT * 0.35) in IEEE-754 double arithmetic. The
\* double nearest 0.35 is 0.35 - 2^-54 * 2/5, so the product lies below
\* 0.35 * n by n/5 * 2^-53. Where 0.35 * n is not an integer the floor is the
\* exact one. Where it is an integer m, the product rounds back to m unless
\* the deficit exceeds half the spacing 2^(k-52) of the doubles below m
\* (2^k < m <= 2^(k+1)), that is unless 4m > 7 * 2^k; then it rounds to the
\* double below m and the floor is m - 1 (first at n = 180: 62, not 63).
RECURSIVE PowerOfTwoBelow(_, _)
PowerOfTwoBelow(m, p) == IF 2 * p < m THEN PowerOfTwoBelow(m, 2 * p) ELSE p

FloorOfProduct(n) ==
    LET exact == (35 * n) \div 100
    IN IF n > 0 /\ (35 * n) % 100 = 0 /\ 4 * exact > 7 * PowerOfTwoBelow(exact, 1)
       THEN exact - 1
       ELSE exact

\* A buffer entry keeps how often each of pos, randPos, cols was written at
\* that index; a particle keeps how often siz was written at its index, the
\* loops that wrote its position, and twice the radius its home position
\* was scaled by.
EmptyEntry == [pos |-> 0, randPos |-> 0, cols |-> 0]
EmptyParticle == [siz |-> 0, body |-> 0, ring |-> 0, radius |-> 0]
NotBuilt == [outcome |-> "none"]

\* pos[idx], pos[idx+1], pos[idx+2] and the same of randPos and cols are
\* assigned; a store outside a typed array is ignored.
WriteEntries(entries, idx) ==
    [k \in DOMAIN entries |->
        IF k \in (idx + 1) .. (idx + 3)
        THEN [pos |-> entries[k].pos + 1, randPos |-> entries[k].randPos + 1,
              cols |-> entries[k].cols + 1]
        ELSE entries[k]]

\* The particle whose position starts at idx is written by the loop `group`
\* with the radius r.
WritePosition(points, idx, group, r) ==
    [k \in DOMAIN points |->
        IF k = idx \div 3 + 1
        THEN [points[k] EXCEPT ![group] = @ + 1, !.radius = r]
        ELSE points[k]]

\* siz[i] = ...
WriteSize(points, i) ==
    [k \in DOMAIN points |->
        IF k = i + 1 THEN [points[k] EXCEPT !.siz = @ + 1] ELSE points[k]]

\* Math.sqrt(t) * (RING_OUTER_RADIUS - RING_INNER_RADIUS) + RING_INNER_RADIUS,
\* doubled, with Math.sqrt(t) = cfg.rand / 2.
RingRadius(cfg) == cfg.rand * (cfg.ringOuter - cfg.ringInner) + 2 * cfg.ringInner

\* for (let i = 0; i < sphereCount; i++) { ... idx += 3 }
RECURSIVE SphereLoop(_, _, _)
SphereLoop(i, st, cfg) ==
    IF i < st.sphereCount
    THEN SphereLoop(i + 1,
             [st EXCEPT
                !.entries = WriteEntries(@, st.idx),
                !.points = WriteSize(WritePosition(@, st.idx, "body",
                                                   2 * cfg.saturnRadius), i),
                !.idx = @ + 3],
             cfg)
    ELSE st

\* for (let i = 0; i < ringCount; i++) { ... idx += 3 }
RECURSIVE RingLoop(_, _, _)
RingLoop(i, st, cfg) ==
    IF i < cfg.count - st.sphereCount
    THEN RingLoop(i + 1,
             [st EXCEPT
                !.entries = WriteEntries(@, st.idx),
                !.points = WriteSize(WritePosition(@, st.idx, "ring",
                                                   RingRadius(cfg)),
                                     st.sphereCount + i),
                !.idx = @ + 3],
             cfg)
    ELSE st

\* The particle useMemo. new Float32Array(length) throws a RangeError for a
\* negative length; nothing else checks the parameters.
GenerateParticles(cfg) ==
    IF cfg.count < 0 THEN [outcome |-> "RangeError"]
    ELSE LET start == [idx |-> 0, sphereCount |-> FloorOfProduct(cfg.count),
                       entries |-> [k \in 1 .. (cfg.count * 3) |-> EmptyEntry],
                       points |-> [k \in 1 .. cfg.count |-> EmptyParticle]]
             st == RingLoop(0, SphereLoop(0, start, cfg), cfg)
         IN [outcome |-> "built", sphereCount |-> st.sphereCount,
             entries |-> st.entries, points |-> st.points]

\* The parameters of the scene that runs (constants.ts).
SceneConfig ==
    [count |-> 3, saturnRadius |-> 2, ringInner |-> 3, ringOuter |-> 5,
     rand |-> 0]

\* The parameters the generator is tried with: every particle count up to
\* MaxParticles with the scene's shape, and the small counts with every
\* combination of shape parameters and either random draw.
ParticleConfigs ==
    {[SceneConfig EXCEPT !.count = n] : n \in (0 - 1) .. MaxParticles}
    \cup [count : (0 - 1) .. SmallParticles, saturnRadius : {0 - 1, 2},
          ringInner : {1, 2}, ringOuter : {1, 2}, rand : {0, 1}]

\* --------------------------------------- SaturnScene: vertex shader main
\* One coordinate of one vertex. uExpansion is x / ShaderDenom; coordinates
\* are in units of 0.1. An input gives the attribute values and the values
\* the sin/cos terms take at the current uTime: home (position), bob
\* (sin(uTime * 2.0 + position.x) * 0.1, 0 for the x and z coordinates),
\* scatter (aRandomPosition) and wander (sin or cos term * noiseAmp).
ShaderCube == ShaderDenom * ShaderDenom * ShaderDenom

\* if (uExpansion > 0.01) nebulaPos += ...
NebulaPos(in) ==
    IF 100 * in.x > ShaderDenom THEN in.scatter + in.wander ELSE in.scatter

\* if (uExpansion < 0.99) saturnPos.y += ...
SaturnPos(in) ==
    IF 100 * in.x < 99 * ShaderDenom THEN in.home + in.bob ELSE in.home

\* smoothstep(0.0, 1.0, uExpansion) * ShaderCube: clamp, then t * t * (3 - 2t)
Smoothstep(x) ==
    LET t == IF x < 0 THEN 0 ELSE IF x > ShaderDenom THEN ShaderDenom ELSE x
    IN t * t * (3 * ShaderDenom - 2 * t)

\* mix(saturnPos, nebulaPos, t) * ShaderCube
Mix(a, b, weight) == a * (ShaderCube - weight) + b * weight

\* finalPos * ShaderCube
FinalPos(in) == Mix(SaturnPos(in), NebulaPos(in), Smoothstep(in.x))

NotRendered == [rendered |-> FALSE]

\* The inputs the shader is tried with.
ShaderInputs ==
    [x : 0 .. ShaderDenom, home : {0, 10}, bob : {0 - 1, 0, 1},
     scatter : {0, 10}, wander : {0 - 20, 0, 20}]

\* ------------------------------------------------------------- history
Script == <<CLOSED, OPEN, OPEN, CLOSED, CLOSED>>

\* The classifier answer that carries the gesture g.
Answer(g) == [kind |-> "json", gesture |-> g, confidence |-> 1]

Entered(old, new) == IF ~old.isExpanded /\ new.isExpanded THEN 1 ELSE 0
Left(old, new) == IF old.isExpanded /\ ~new.isExpanded THEN 1 ELSE 0

Record(sel, i) ==
    IF sel /\ Len(firstCycle) < NumPhrases THEN Append(firstCycle, i)
    ELSE firstCycle

\* `last` after any step that is not the settling of a classifier call.
NoStep == [kind |-> "other", selected |-> FALSE, refilled |-> FALSE]

\* ---------------------------------------------------------------- Init
InitApp ==
    /\ gestureState = CLOSED
    /\ isExpanded = FALSE
    /\ currentPhrase = ""
    /\ availableIndices = AllIndices
    /\ onGestureDetected = [isExpanded |-> FALSE, availableIndices |-> AllIndices]
    /\ hasPermission = FALSE
    /\ loading = TRUE
    /\ intervalRef = NoInterval
    /\ inFlight = EmptyBag
    /\ uExpansion = 0
    /\ uTime = 0
    /\ rotationY = 0
    /\ phraseCalls = 0
    /\ expandEntries = 0
    /\ collapseEntries = 0
    /\ firstCycle = <<>>
    /\ toggledSinceTick = FALSE
    /\ scriptPos = 0
    /\ last = NoStep

\* The state after mount: the particle buffers are built in the first render.
Init ==
    /\ InitApp
    /\ config = SceneConfig
    /\ particles = GenerateParticles(SceneConfig)
    /\ vertex = NotRendered

\* The generator on its own: the parameters are any of ParticleConfigs and the
\* buffers are not built yet.
InitGenerator ==
    /\ InitApp
    /\ config \in ParticleConfigs
    /\ particles = NotBuilt
    /\ vertex = NotRendered

\* The vertex shader on its own: any input, not yet run.
InitShader ==
    /\ InitApp
    /\ config = SceneConfig
    /\ particles = GenerateParticles(SceneConfig)
    /\ vertex \in {[rendered |-> FALSE, in |-> in] : in \in ShaderInputs}

\* Commit the App state `new` and re-render.
Commit(new) ==
    /\ gestureState' = new.gestureState
    /\ isExpanded' = new.isExpanded
    /\ currentPhrase' = new.currentPhrase
    /\ availableIndices' = new.availableIndices
    /\ onGestureDetected' = Memoize(AppState, new, onGestureDetected)

\* ------------------------------------------------------------- actions
\* startCamera: getUserMedia resolves, setHasPermission(true).
CameraGranted ==
    /\ loading
    /\ loading' = FALSE
    /\ hasPermission' = TRUE
    /\ intervalRef' = IF hasPermission THEN intervalRef
                      ELSE AnalysisEffect(intervalRef, TRUE, onGestureDetected)
    /\ last' = NoStep
    /\ UNCHANGED <<appVars, onGestureDetected, inFlight, uExpansion, uTime,
                   toggledSinceTick, scriptVars, rotationY, sceneVars>>

\* startCamera: getUserMedia rejects, setHasPermission(false).
CameraDenied ==
    /\ loading
    /\ loading' = FALSE
    /\ hasPermission' = FALSE
    /\ intervalRef' = IF hasPermission
                      THEN AnalysisEffect(intervalRef, FALSE, onGestureDetected)
                      ELSE intervalRef
    /\ last' = NoStep
    /\ UNCHANGED <<appVars, onGestureDetected, inFlight, uExpansion, uTime,
                   toggledSinceTick, scriptVars, rotationY, sceneVars>>

\* The "Restart Camera" button, rendered while hasPermission: startCamera
\* again. One request is pending at a time (a second click before the first
\* request settles is left out).
RestartCamera ==
    /\ hasPermission
    /\ ~loading
    /\ loading' = TRUE
    /\ last' = NoStep
    /\ UNCHANGED <<appVars, onGestureDetected, hasPermission, intervalRef,
                   inFlight, uExpansion, uTime, toggledSinceTick, scriptVars, rotationY, sceneVars>>

\* A tick that waits for the earlier call: nothing is dispatched while a call
\* is in flight.
TickAwaits ==
    /\ intervalRef.live > 0
    /\ inFlight = EmptyBag
    /\ inFlight' = inFlight (+) SetToBag({[render |-> intervalRef.onGestureDetected]})
    /\ toggledSinceTick' = FALSE
    /\ last' = NoStep
    /\ UNCHANGED <<appVars, onGestureDetected, hasPermission, loading,
                   intervalRef, uExpansion, uTime, scriptVars, rotationY, sceneVars>>

\* One tick of the interval: a frame is captured and detectGesture is called,
\* not awaited.
Tick ==
    /\ intervalRef.live > 0
    /\ BagCardinality(inFlight) < MaxInFlight
    /\ inFlight' = inFlight (+) SetToBag({[render |-> intervalRef.onGestureDetected]})
    /\ toggledSinceTick' = FALSE
    /\ last' = NoStep
    /\ UNCHANGED <<appVars, onGestureDetected, hasPermission, loading,
                   intervalRef, uExpansion, uTime, scriptVars, rotationY, sceneVars>>

\* A detectGesture promise settles and its .then handler runs.
Settle(call, raw, rnd) ==
    LET response == detectGesture(raw)
        sel == ThenCalls(response)
               /\ GestureSelects(call.render, MapGesture(response))
        new == ThenHandler(AppState, call.render, response, rnd)
    IN /\ BagIn(call, inFlight)
       /\ rnd \in DrawsIf(sel)
       /\ inFlight' = inFlight (-) SetToBag({call})
       /\ Commit(new)
       /\ last' = [kind |-> "deliver", raw |-> raw.kind, gesture |-> raw.gesture,
                   response |-> response.gesture,
                   confidence |-> response.confidence,
                   resolved |-> response.resolved,
                   called |-> ThenCalls(response), selected |-> sel,
                   refilled |-> sel /\ Refills(call.render)]
       /\ UNCHANGED <<hasPermission, loading, intervalRef, uExpansion,
                      uTime, rotationY, toggledSinceTick, sceneVars>>

\* Any result the classifier can give.
Deliver(call, raw, rnd) ==
    /\ Settle(call, raw, rnd)
    /\ UNCHANGED scriptVars

\* The next result of Script, with the run's counts kept.
DeliverScript(call, rnd) ==
    LET response == detectGesture(Answer(Script[scriptPos + 1]))
        sel == ThenCalls(response)
               /\ GestureSelects(call.render, MapGesture(response))
        new == ThenHandler(AppState, call.render, response, rnd)
    IN /\ scriptPos < Len(Script)
       /\ Settle(call, Answer(Script[scriptPos + 1]), rnd)
       /\ scriptPos' = scriptPos + 1
       /\ firstCycle' = Record(sel, PhraseIndex(call.render, rnd))
       /\ phraseCalls' = phraseCalls + (IF sel THEN 1 ELSE 0)
       /\ expandEntries' = expandEntries + Entered(AppState, new)
       /\ collapseEntries' = collapseEntries + Left(AppState, new)

\* A toggle that also assigns the blend uniform: the value jumps to the new
\* target.
ManualToggleSnaps(rnd) ==
    LET new == handleManualToggle(AppState, rnd)
        sel == ~isExpanded
    IN /\ rnd \in DrawsIf(sel)
       /\ Commit(new)
       /\ toggledSinceTick' = TRUE
       /\ uExpansion' = Target(new.isExpanded)
       /\ last' = [kind |-> "toggle", selected |-> sel,
                   refilled |-> sel /\ Refills(AppState)]
       /\ UNCHANGED <<hasPermission, loading, intervalRef, inFlight,
                      uTime, scriptVars, rotationY, sceneVars>>

\* A click on the manual trigger button.
ManualToggle(rnd) ==
    LET new == handleManualToggle(AppState, rnd)
        sel == ~isExpanded
    IN /\ rnd \in DrawsIf(sel)
       /\ Commit(new)
       /\ toggledSinceTick' = TRUE
       /\ last' = [kind |-> "toggle", selected |-> sel,
                   refilled |-> sel /\ Refills(AppState)]
       /\ UNCHANGED <<hasPermission, loading, intervalRef, inFlight,
                      uExpansion, uTime, scriptVars, rotationY, sceneVars>>

\* The useFrame callback. The clock and the spin angle are followed for the
\* first MaxFrames frames of a run.
useFrame ==
    /\ uTime' = IF uTime < MaxFrames THEN uTime + 1 ELSE uTime
    /\ uExpansion' = Lerp(uExpansion, isExpanded)
    /\ rotationY' = IF uTime < MaxFrames /\ ~isExpanded THEN rotationY + 1
                    ELSE rotationY
    /\ last' = NoStep
    /\ UNCHANGED <<appVars, onGestureDetected, hasPermission, loading,
                   intervalRef, inFlight, toggledSinceTick, scriptVars,
                   sceneVars>>

\* One of the first MaxFrames animation frames.
Frame ==
    /\ uTime < MaxFrames
    /\ useFrame

\* An animation frame at any time of the run.
FrameLoop == useFrame

Next ==
    \/ CameraGranted
    \/ CameraDenied
    \/ RestartCamera
    \/ Tick
    \/ \E call \in BagToSet(inFlight), raw \in RawOutcomes, rnd \in RandomDraws :
          Deliver(call, raw, rnd)
    \/ \E rnd \in RandomDraws : ManualToggle(rnd)
    \/ Frame

Spec == Init /\ [][Next]_vars

\* The classifier alone drives the scene, with the results of Script in order.
NextScript ==
    \/ CameraGranted
    \/ Tick
    \/ \E call \in BagToSet(inFlight), rnd \in RandomDraws : DeliverScript(call, rnd)
    \/ Frame

SpecScript == Init /\ [][NextScript]_vars

\* The first render of SaturnScene runs the particle useMemo.
BuildParticles ==
    /\ particles = NotBuilt
    /\ particles' = GenerateParticles(config)
    /\ UNCHANGED <<appVars, onGestureDetected, hasPermission, loading,
                   intervalRef, inFlight, uExpansion, uTime, rotationY, config,
                   vertex, last, toggledSinceTick, scriptVars>>

NextGenerator == BuildParticles

SpecGenerator == InitGenerator /\ [][NextGenerator]_vars

\* The vertex shader runs for the vertex.
RenderVertex ==
    /\ ~vertex.rendered
    /\ vertex # NotRendered
    /\ vertex' = [rendered |-> TRUE, in |-> vertex.in,
                  finalPos |-> FinalPos(vertex.in)]
    /\ UNCHANGED <<appVars, onGestureDetected, hasPermission, loading,
                   intervalRef, inFlight, uExpansion, uTime, rotationY, config,
                   particles, last, toggledSinceTick, scriptVars>>

NextShader == RenderVertex

SpecShader == InitShader /\ [][NextShader]_vars

\* The blend driver over a run of any length: the mode is flipped by the
\* manual trigger, and the frame loop keeps running (requestAnimationFrame).
NextBlend ==
    \/ \E rnd \in RandomDraws : ManualToggle(rnd)
    \/ FrameLoop

SpecBlend == Init /\ [][NextBlend]_vars /\ WF_vars(FrameLoop)

\* A classifier result that is a recognised gesture is handled.
DeliverGesture ==
    \E call \in BagToSet(inFlight), g \in {OPEN, CLOSED}, rnd \in RandomDraws :
        Deliver(call, Answer(g), rnd)

\* The app driven by the classifier and the manual button, with the polling
\* kept running: setInterval fires its callback again and again while the
\* interval exists, and every detectGesture promise settles (the function
\* catches its errors and has no other way out).
NextPolling ==
    \/ CameraGranted
    \/ Tick
    \/ DeliverGesture
    \/ \E rnd \in RandomDraws : ManualToggle(rnd)

SpecPolling ==
    Init /\ [][NextPolling]_vars /\ WF_vars(Tick) /\ WF_vars(DeliverGesture)

\* ------------------------------------------------------------ claims
\* Every action writes last, so last' tells which step is being taken.

\* C1: whenever the classifier reports CLOSED while the scene is expanded, the
\* scene is collapsed afterwards, whichever render started the polling interval
\* that handles the result.
C1_ClosedCollapses ==
    [][(last'.kind = "deliver" /\ last'.response = CLOSED /\ isExpanded)
          => ~isExpanded']_vars

\* C2: whenever the classifier reports OPEN while the scene is collapsed, the
\* scene is expanded afterwards, triggerNewPhrase has run in that step, and the
\* frame loop's blend target is 1.
C2_OpenExpands ==
    [][(last'.kind = "deliver" /\ last'.response = OPEN /\ ~isExpanded)
          => (/\ isExpanded'
              /\ last'.selected
              /\ Target(isExpanded') = BlendDenom)]_vars

\* C3: a result of NONE, of OPEN while expanded, or of CLOSED while collapsed
\* leaves isExpanded, availableIndices and currentPhrase as they were.
C3_NoOpSignals ==
    [][(/\ last'.kind = "deliver"
        /\ \/ last'.response = NONE
           \/ last'.response = OPEN /\ isExpanded
           \/ last'.response = CLOSED /\ ~isExpanded)
          => UNCHANGED <<isExpanded, availableIndices, currentPhrase>>]_vars

\* C4: in every step, classifier result or manual toggle, triggerNewPhrase
\* runs exactly when the scene goes from collapsed to expanded, so the number
\* of invocations equals the number of such transitions over any interleaving.
C4_PhrasePerExpansion ==
    [][last'.selected <=> (~isExpanded /\ isExpanded')]_vars

\* C5: once the classifier has answered CLOSED, OPEN, OPEN, CLOSED, CLOSED from
\* the initial state, the scene has entered EXPANDED once, entered COLLAPSED
\* once and is collapsed, and triggerNewPhrase has run once.
C5_ScriptedRun ==
    scriptPos = Len(Script)
        => /\ expandEntries = 1
           /\ collapseEntries = 1
           /\ ~isExpanded
           /\ phraseCalls = 1

\* C6: the first NumPhrases phrase selections made from the full pool are
\* pairwise distinct.
C6_NoRepeatInCycle ==
    \A i, j \in 1 .. Len(firstCycle) :
        i # j => firstCycle[i] # firstCycle[j]

\* C7: a classifier result that arrives after the user toggled the mode is
\* handled as the current render's handler would handle it: the debounce check
\* uses the mode at arrival time.
C7_StaleResultRechecked ==
    [][(last'.kind = "deliver" /\ toggledSinceTick)
          => \E rnd \in RandomDraws :
                AppState' = ThenHandler(AppState, Closure(AppState),
                                        [gesture |-> last'.response,
                                         confidence |-> 0,
                                         resolved |-> last'.resolved], rnd)]_vars

\* C8: while the polling interval runs, a manual toggle has the outcomes of
\* the classifier-driven transition from the same state (OPEN when collapsed,
\* CLOSED when expanded), and two toggles from EXPANDED have the outcomes of
\* CLOSED followed by OPEN.
C8_ToggleMatchesClassifier ==
    intervalRef.set =>
        LET render == intervalRef.onGestureDetected
            viaToggle(s) == {handleManualToggle(s, rnd) : rnd \in RandomDraws}
            viaGesture(s, g) ==
                {ThenHandler(s, render, detectGesture(Answer(g)), rnd) :
                    rnd \in RandomDraws}
        IN /\ viaToggle(AppState)
                = viaGesture(AppState, IF isExpanded THEN CLOSED ELSE OPEN)
           /\ isExpanded =>
                UNION {viaToggle(s) : s \in viaToggle(AppState)}
                    = UNION {viaGesture(s, OPEN) : s \in viaGesture(AppState, CLOSED)}

\* C9: a response without text, or whose gesture is absent or not one of OPEN,
\* CLOSED, NONE, is treated as NONE: onGestureDetected is not called and the
\* mode does not change.
C9_MalformedIsNone ==
    [][(/\ last'.kind = "deliver"
        /\ \/ last'.raw = "emptyText"
           \/ last'.raw = "json" /\ last'.gesture \notin {OPEN, CLOSED, NONE})
          => (~last'.called /\ UNCHANGED isExpanded)]_vars

\* C10: a classifier call that fails with a network error or a JSON parse
\* error resolves to gesture NONE with confidence 0, and the step in which it
\* settles leaves isExpanded, gestureState, availableIndices, currentPhrase and
\* the blend value unchanged and the frame loop able to run as before.
C10_FailureIsNone ==
    /\ \A raw \in RawOutcomes :
          raw.kind \in {"netError", "badJson"}
              => detectGesture(raw)
                    = [gesture |-> NONE, confidence |-> 0, resolved |-> TRUE]
    /\ [][(last'.kind = "deliver" /\ last'.raw \in {"netError", "badJson"})
             => (/\ last'.resolved
                 /\ last'.response = NONE
                 /\ ~last'.called
                 /\ UNCHANGED <<appVars, onGestureDetected, uExpansion, uTime>>
                 /\ (ENABLED Frame)' = ENABLED Frame)]_vars

\* C10 happens: a call that failed with a network error has just settled while
\* the scene is expanded.
C10_Witness_NetError ==
    last.kind = "deliver" /\ last.raw = "netError" /\ isExpanded

\* C11: in every reachable state, after any number of frames and any mode
\* flips between them, the blend coefficient is at least 0 and at most 1.
C11_BlendInUnitInterval == 0 <= uExpansion /\ uExpansion <= BlendDenom

\* C11 happens: the mode was flipped back to collapsed after the blend had
\* come within 0.01 of 1.
C11_Witness_FlipNearOne == ~isExpanded /\ uExpansion > BlendDenom - Epsilon

\* C12: if from some point on the mode stays expanded and frames keep being
\* rendered, the blend eventually is within 0.01 of 1 and stays there; if the
\* mode stays collapsed, it eventually is within 0.01 of 0 and stays there;
\* and a frame rendered in an unchanged mode never takes the blend out of the
\* 0.01 band around that mode's target.
C12_Convergence ==
    /\ <>[]isExpanded => <>[](uExpansion >= BlendDenom - Epsilon)
    /\ <>[](~isExpanded) => <>[](uExpansion <= Epsilon)
    /\ [][(isExpanded /\ isExpanded' /\ uExpansion >= BlendDenom - Epsilon)
             => uExpansion' >= BlendDenom - Epsilon]_vars
    /\ [][(~isExpanded /\ ~isExpanded' /\ uExpansion <= Epsilon)
             => uExpansion' <= Epsilon]_vars

\* C12 happens: the scene is expanded and the blend, started at 0, has come
\* within 0.01 of 1.
C12_Witness_Converged == isExpanded /\ uExpansion >= BlendDenom - Epsilon

\* C13: while the interval runs a tick can always dispatch a new call, however
\* many calls are in flight (up to the bound MaxInFlight of the model); every
\* call in flight can settle next, with any outcome, whatever was dispatched
\* after it; and the step in which a call settles is the .then handler of that
\* call applied to the state at that moment.
C13_PollingNotBlocked ==
    /\ []((intervalRef.set /\ BagCardinality(inFlight) < MaxInFlight)
             => ENABLED Tick)
    /\ [](\A call \in BagToSet(inFlight) : \A raw \in RawOutcomes :
             \E rnd \in RandomDraws : ENABLED Deliver(call, raw, rnd))
    /\ [][last'.kind = "deliver"
             => \E call \in BagToSet(inFlight), rnd \in RandomDraws :
                   /\ inFlight' = inFlight (-) SetToBag({call})
                   /\ AppState' = ThenHandler(AppState, call.render,
                                              [gesture |-> last'.response,
                                               confidence |-> 0,
                                               resolved |-> last'.resolved],
                                              rnd)]_vars

\* C13 happens: a result has just been handled while another call, dispatched
\* without waiting for it, is still in flight.
C13_Witness_Overlap ==
    last.kind = "deliver" /\ last.called /\ BagCardinality(inFlight) >= 1

\* C14: in every reachable state and for every call in flight, two responses
\* with the same gesture and different confidence values are handled alike:
\* same resulting App state (isExpanded, gestureState, availableIndices,
\* currentPhrase) and the same decision to select a phrase.
C14_ConfidenceIgnored ==
    \A call \in BagToSet(inFlight), g \in JsonGestures, rnd \in RandomDraws :
        \A c1, c2 \in Confidences :
            LET r1 == detectGesture([kind |-> "json", gesture |-> g,
                                     confidence |-> c1])
                r2 == detectGesture([kind |-> "json", gesture |-> g,
                                     confidence |-> c2])
            IN /\ ThenHandler(AppState, call.render, r1, rnd)
                    = ThenHandler(AppState, call.render, r2, rnd)
               /\ (ThenCalls(r1) /\ GestureSelects(call.render, MapGesture(r1)))
                    <=> (ThenCalls(r2) /\ GestureSelects(call.render, MapGesture(r2)))

\* C14 happens: a response OPEN with confidence 0 has just expanded the scene
\* and selected a phrase, and another call is in flight.
C14_Witness_ZeroConfidence ==
    /\ last.kind = "deliver" /\ last.raw = "json"
    /\ last.response = OPEN /\ last.confidence = 0
    /\ last.selected /\ isExpanded
    /\ inFlight # EmptyBag

C16_ParticlePartition ==
    (particles.outcome = "built" /\ config.count >= 1)
        => LET n == config.count
               points == particles.points
               entries == particles.entries
               body == {p \in DOMAIN points : points[p].body = 1}
               ring == {p \in DOMAIN points : points[p].ring = 1}
           IN /\ DOMAIN points = 1 .. n
              /\ \A p \in DOMAIN points : points[p].body + points[p].ring = 1
              /\ Cardinality(body) = (35 * n) \div 100
              /\ Cardinality(ring) = n - (35 * n) \div 100
              /\ DOMAIN entries = 1 .. (3 * n)
              /\ \A k \in DOMAIN entries :
                    /\ entries[k].pos = 1
                    /\ entries[k].randPos = 1
                    /\ entries[k].cols = 1
              /\ \A p \in DOMAIN points : points[p].siz = 1

\* C17: when the particle count is not positive, the ring's inner radius is
\* not below its outer radius, or a radius is negative, the construction ends
\* in an error and builds no buffers.
C17_InvalidConfigRejected ==
    (/\ particles # NotBuilt
     /\ \/ config.count <= 0
        \/ config.ringInner >= config.ringOuter
        \/ config.saturnRadius < 0
        \/ config.ringInner < 0
        \/ config.ringOuter < 0)
        => particles.outcome \notin {"built"}

\* C18: at scene start (the first camera request is pending, the trigger has
\* not been clicked and no frame has been rendered) the scene is collapsed with
\* blend 0: isExpanded is false, gestureState is CLOSED, uExpansion is 0,
\* currentPhrase is empty and availableIndices holds each index 0..K-1 once.
C18_StartCollapsed ==
    (loading /\ ~hasPermission /\ ~toggledSinceTick /\ uTime = 0)
        => /\ ~isExpanded
           /\ gestureState = CLOSED
           /\ uExpansion = 0
           /\ currentPhrase = ""
           /\ Len(availableIndices) = NumPhrases
           /\ \A k \in 0 .. (NumPhrases - 1) :
                 Cardinality({i \in 1 .. Len(availableIndices) :
                                 availableIndices[i] = k}) = 1

\* C18 happens: the scene has just been mounted.
C18_Witness_SceneStart ==
    /\ loading /\ ~hasPermission /\ ~toggledSinceTick /\ uTime = 0
    /\ intervalRef = NoInterval /\ inFlight = EmptyBag /\ last = NoStep

\* C19: the spin angle about the vertical axis is a function of the elapsed
\* frames only. A run that stays collapsed turns by one step (0.001 rad) per
\* frame, so every run that rendered the same frames has turned by uTime
\* steps, whatever its mode history.
C19_SpinFollowsTimeOnly == rotationY = uTime

\* C20: with blend 0 the output coordinate is the compact one (home plus
\* bob); with blend 1 it is the dispersed one (scatter plus wander); for a
\* blend strictly between 0 and 1 it lies strictly between the two whenever
\* they differ; and the weight smoothstep(blend) does not decrease as the
\* blend grows.
C20_RenderInterpolates ==
    vertex.rendered
        => LET in == vertex.in
               compact == (in.home + in.bob) * ShaderCube
               dispersed == (in.scatter + in.wander) * ShaderCube
               out == vertex.finalPos
           IN /\ in.x = 0 => out = compact
              /\ in.x = ShaderDenom => out = dispersed
              /\ (0 < in.x /\ in.x < ShaderDenom /\ compact # dispersed)
                    => \/ compact < out /\ out < dispersed
                       \/ dispersed < out /\ out < compact
              /\ \A x1, x2 \in 0 .. ShaderDenom :
                    x1 <= x2 => Smoothstep(x1) <= Smoothstep(x2)

\* C21: a step of the polling and gesture path (a tick, a handled result, a
\* manual toggle, a camera event) writes neither the blend value nor the
\* per-particle buffers nor the rendered vertex; a frame writes none of
\* isExpanded, gestureState, availableIndices and currentPhrase; the particle
\* buffers written at construction are changed by no step at all.
C21_FrameEffect ==
    [][/\ (uTime' = uTime => UNCHANGED <<uExpansion, rotationY, sceneVars>>)
       /\ (uTime' # uTime => UNCHANGED appVars)
       /\ UNCHANGED <<config, particles>>]_vars

\* A frame has run, a classifier result was handled after it in the expanded
\* mode, and the particle buffers are the built ones.
C21_Witness_FrameThenSignal ==
    /\ uTime > 0
    /\ last.kind = "deliver"
    /\ last.called
    /\ isExpanded
    /\ particles.outcome = "built"

\* C22: when a classifier result is passed to onGestureDetected, the
\* isExpanded the handler reads is the app's isExpanded at that moment, and
\* the availableIndices its triggerNewPhrase reads is the app's
\* availableIndices at that moment.
C22_HandlerReadsCurrent ==
    [][(last'.kind = "deliver" /\ last'.called) =>
          \A call \in BagToSet(inFlight) :
              inFlight' = inFlight (-) SetToBag({call}) =>
                  /\ call.render.isExpanded = isExpanded
                  /\ last'.selected =>
                        call.render.availableIndices = availableIndices]_vars

\* C23: a frame changes the blend value by (target - blend) * 0.04, to the
\* resolution 1/BlendDenom of the value, and so moves it toward the target of
\* the current mode without passing it; no other step assigns the blend value,
\* so a mode flip in mid-transition leaves the value where it is and the next
\* frame continues from there.
C23_BlendStep ==
    [][IF last'.kind = "other"
       THEN LET gap == Target(isExpanded) - uExpansion
                step == uExpansion' - uExpansion
            IN /\ LerpDivisor * step <= gap
               /\ gap < LerpDivisor * step + LerpDivisor
               /\ IF isExpanded
                  THEN uExpansion <= uExpansion' /\ uExpansion' <= Target(TRUE)
                  ELSE Target(FALSE) <= uExpansion' /\ uExpansion' <= uExpansion
       ELSE uExpansion' = uExpansion]_vars

\* The mode was flipped back to collapsed in the lower half of the way up:
\* the toggle left the blend value where the frames had brought it.
C23_Witness_FlipMidway ==
    /\ last.kind = "toggle"
    /\ ~isExpanded
    /\ 0 < uExpansion
    /\ uExpansion < BlendDenom \div 2

\* C24: in every reachable state isExpanded is true exactly when gestureState
\* is OPEN, and false exactly when gestureState is CLOSED.
C24_ModeMatchesGesture ==
    /\ isExpanded <=> gestureState = OPEN
    /\ ~isExpanded <=> gestureState = CLOSED

\* C25: gestureState is never NONE: a response whose gesture is NONE is not
\* passed to onGestureDetected and leaves gestureState as it was, and every
\* value stored in gestureState is OPEN or CLOSED.
C25_GestureNeverNone ==
    /\ [](gestureState \in {OPEN, CLOSED})
    /\ [][(last'.kind = "deliver" /\ last'.response = NONE) =>
             (~last'.called /\ gestureState' = gestureState)]_vars

\* The model answered with well-formed JSON whose gesture is NONE, and the
\* result was handled while the app was in the expanded mode.
C25_Witness_NoneHandled ==
    /\ last.kind = "deliver"
    /\ last.raw = "json"
    /\ last.response = NONE
    /\ isExpanded

\* C26: availableIndices holds no index twice and only indices 0 .. K-1, and
\* once a phrase has been selected the index of currentPhrase is not in
\* availableIndices.
C26_PoolWellFormed ==
    /\ \A i, j \in 1 .. Len(availableIndices) :
          availableIndices[i] = availableIndices[j] => i = j
    /\ \A i \in 1 .. Len(availableIndices) :
          availableIndices[i] \in 0 .. (NumPhrases - 1)
    /\ \A k \in 0 .. (NumPhrases - 1) :
          currentPhrase = PHRASES[k] =>
              \A i \in 1 .. Len(availableIndices) : availableIndices[i] # k

\* A phrase was selected by the interval's handler after the manual button
\* was used since the last tick: the selection started from the index set of
\* the render that created the handler.
C26_Witness_StaleSelection ==
    /\ last.kind = "deliver"
    /\ last.selected
    /\ toggledSinceTick
    /\ Len(availableIndices) = NumPhrases - 1

\* C27: whenever the scene is expanded, currentPhrase is one of the phrases of
\* PHRASES, never the empty initial value (NumPhrases >= 1).
C27_ExpandedHasPhrase ==
    isExpanded => \E k \in 0 .. (NumPhrases - 1) : currentPhrase = PHRASES[k]

\* The scene is expanded with the last phrase of PHRASES on display, selected
\* by the classifier result just handled.
C27_Witness_ExpandedByGesture ==
    /\ isExpanded
    /\ last.kind = "deliver"
    /\ last.selected
    /\ ~toggledSinceTick
    /\ currentPhrase = PHRASES[NumPhrases - 1]

\* C28: at most one polling interval runs at any time, and one runs only
\* while active and hasPermission are both true; a classifier call is
\* dispatched only while the interval runs, so none after it was stopped;
\* stopping the interval cancels no call in flight, and the result of such a
\* call can still be handled.
C28_SingleInterval ==
    /\ [](/\ intervalRef.live <= 1
          /\ intervalRef.live = 1 <=> intervalRef.set
          /\ intervalRef.set => (active /\ hasPermission))
    /\ [][BagCardinality(inFlight') > BagCardinality(inFlight) =>
             (intervalRef.set /\ active /\ hasPermission)]_vars
    /\ [][(intervalRef.set /\ ~intervalRef'.set) => inFlight' = inFlight]_vars
    /\ []((~intervalRef.set /\ inFlight # EmptyBag) =>
             ENABLED (\E call \in BagToSet(inFlight), rnd \in RandomDraws :
                         Deliver(call, Answer(CLOSED), rnd)))

\* The interval was stopped by a refused camera restart, a result dispatched
\* before the stop has just been handled, and another call is still in flight.
C28_Witness_DeliveredAfterStop ==
    /\ ~intervalRef.set
    /\ ~hasPermission
    /\ last.kind = "deliver"
    /\ last.called
    /\ inFlight # EmptyBag

\* C29: if from some point on the manual button is not used, results keep
\* being handled and every handled result is CLOSED, then the scene becomes
\* collapsed and stays so; and if every handled result is OPEN instead, the
\* scene becomes expanded and stays so.
C29_ClassifierDrivesMode ==
    /\ (/\ <>[](last.kind # "toggle"
                  /\ (last.kind = "deliver" => last.response = CLOSED))
        /\ []<>(last.kind = "deliver"))
          => <>[](~isExpanded)
    /\ (/\ <>[](last.kind # "toggle"
                  /\ (last.kind = "deliver" => last.response = OPEN))
        /\ []<>(last.kind = "deliver"))
          => <>[]isExpanded

====
